---- MODULE Spec2Model ----
(***************************************************************************)
(* ChangesTracker (src/src/changes-tracker.ts): a registry of tracked      *)
(* (owner type, property) entries with deep-copied baselines, and the      *)
(* depth-limited recursive differ that compares baselines to live values.  *)
(***************************************************************************)
EXTENDS Integers, Sequences, FiniteSets, TLC

(***************************************************************************)
(* JavaScript values.  Every value is a record [t, a, kids]:               *)
(*   t    the kind: "null", "number", "string", "date", "array", "object"  *)
(*   a    the payload of a scalar or date; the constructor name of an      *)
(*        object; "" otherwise                                             *)
(*   kids the own enumerable properties in Object.keys order, each         *)
(*        [k |-> key, v |-> value]; an array's keys are "0", "1", ...      *)
(***************************************************************************)
Null == [t |-> "null", a |-> "", kids |-> <<>>]
Undefined == [t |-> "undefined", a |-> "", kids |-> <<>>]
Num(n) == [t |-> "number", a |-> ToString(n), kids |-> <<>>]
Str(s) == [t |-> "string", a |-> s, kids |-> <<>>]
Date(s) == [t |-> "date", a |-> s, kids |-> <<>>]
Arr(items) ==
    [t |-> "array", a |-> "",
     kids |-> [i \in 1..Len(items) |-> [k |-> ToString(i - 1), v |-> items[i]]]]
Obj(class, props) == [t |-> "object", a |-> class, kids |-> props]
KV(key, val) == [k |-> key, v |-> val]

\* Object.keys(v)
Keys(v) == [i \in 1..Len(v.kids) |-> v.kids[i].k]
KeySet(v) == {v.kids[i].k : i \in 1..Len(v.kids)}

\* Array.isArray(v)
IsArray(v) == v.t = "array"

\* typeof v === 'object' (null included, as in JavaScript)
TypeofObject(v) == v.t \in {"null", "date", "array", "object"}

\* v.hasOwnProperty(key): the enumerable keys, an array's own "length", and
\* an Error's own "message" and "stack"
HasOwnProperty(v, key) ==
    \/ key \in KeySet(v)
    \/ IsArray(v) /\ key = "length"
    \/ v.t = "object" /\ v.a = "Error" /\ key \in {"message", "stack"}

\* The message every Error of the model was constructed with, and the stack
\* trace the runtime gave it: a string
ErrorMessage == Str("x")
ErrorStack == Str("Error: x at <anonymous>")

\* v[key] for a key that v owns
Get(v, key) ==
    IF key \in KeySet(v)
    THEN LET i == CHOOSE j \in 1..Len(v.kids) : v.kids[j].k = key IN v.kids[i].v
    ELSE IF IsArray(v) /\ key = "length" THEN Num(Len(v.kids))
    ELSE IF v.t = "object" /\ v.a = "Error" /\ key = "message" THEN ErrorMessage
    ELSE IF v.t = "object" /\ v.a = "Error" /\ key = "stack" THEN ErrorStack
    ELSE Undefined

RECURSIVE At(_, _)
\* The value reached from v through the keys and indices segs
At(v, segs) == IF segs = <<>> THEN v ELSE At(Get(v, Head(segs)), Tail(segs))

RECURSIVE Put(_, _, _)
\* v with the value at path segs replaced by w
Put(v, segs, w) ==
    IF segs = <<>> THEN w
    ELSE [v EXCEPT !.kids =
            [i \in 1..Len(v.kids) |->
                IF v.kids[i].k = Head(segs)
                THEN [k |-> v.kids[i].k, v |-> Put(v.kids[i].v, Tail(segs), w)]
                ELSE v.kids[i]]]

(***************************************************************************)
(* lodash                                                                  *)
(***************************************************************************)
\* The constructors of the objects lodash does not clone (their tag is not
\* in cloneableTags).  The Errors of the model all have the name and the
\* message of new Error('x'); a WeakMap or WeakSet value stands for one
\* object, so that two of them with the same content are the same object.
Uncloneable == {"Error", "WeakMap", "WeakSet"}
IsUncloneable(x) == x.t = "object" /\ x.a \in Uncloneable

RECURSIVE isEqual(_, _)
\* lodash.isEqual: same kind; scalars and dates by payload; arrays by length
\* and elements in order; objects by constructor and by key set and values,
\* whatever the key order.  Two Errors are compared by name and message
\* alone (equalByTag), a WeakMap or WeakSet is equal to itself only.
isEqual(x, y) ==
    IF x.t # y.t THEN FALSE
    ELSE IF x.t \in {"null", "undefined"} THEN TRUE
    ELSE IF x.t \in {"number", "string", "date"} THEN x.a = y.a
    ELSE IF IsUncloneable(x) \/ IsUncloneable(y)
    THEN IF x.a # y.a THEN FALSE
         ELSE IF x.a = "Error" THEN TRUE
         ELSE x = y
    ELSE IF x.t = "array"
    THEN /\ Len(x.kids) = Len(y.kids)
         /\ \A i \in 1..Len(x.kids) : isEqual(x.kids[i].v, y.kids[i].v)
    ELSE /\ x.a = y.a
         /\ Len(x.kids) = Len(y.kids)
         /\ \A i \in 1..Len(x.kids) :
               /\ x.kids[i].k \in KeySet(y)
               /\ isEqual(x.kids[i].v, Get(y, x.kids[i].k))

RECURSIVE baseClone(_, _)
\* lodash's baseClone(value, ..., object): a new value of the same kind and
\* constructor whose properties, in the same order, are clones of the
\* original's.  An object that cannot be cloned is returned as it is when
\* it is inside another value (nested), and gives {} when it is the value
\* cloned.
baseClone(x, nested) ==
    IF IsUncloneable(x) THEN IF nested THEN x ELSE Obj("Object", <<>>)
    ELSE IF x.kids = <<>> THEN [t |-> x.t, a |-> x.a, kids |-> <<>>]
    ELSE [t |-> x.t, a |-> x.a,
          kids |-> [i \in 1..Len(x.kids) |->
                      [k |-> x.kids[i].k, v |-> baseClone(x.kids[i].v, TRUE)]]]

\* lodash.cloneDeep
cloneDeep(x) == baseClone(x, FALSE)

RECURSIVE UncloneableBelow(_)
\* The paths, below x, of the outermost objects that cannot be cloned
UncloneableBelow(x) ==
    UNION {IF IsUncloneable(x.kids[i].v) THEN {<<x.kids[i].k>>}
           ELSE {<<x.kids[i].k>> \o q : q \in UncloneableBelow(x.kids[i].v)} :
           i \in 1..Len(x.kids)}

\* The paths at which cloneDeep(x) holds an object of x itself
SharedByClone(x) == IF IsUncloneable(x) THEN {} ELSE UncloneableBelow(x)

(***************************************************************************)
(* The differ                                                              *)
(***************************************************************************)
\* Default maximum depth of startTrack
defaultMaxDepth == 3

\* The concatenation of a sequence of sequences (allChanges.push(...changes))
RECURSIVE Flatten(_)
Flatten(ss) == IF ss = <<>> THEN <<>> ELSE Head(ss) \o Flatten(Tail(ss))

\* _isSpecialTypeOrPrimitive without the check for Date
_isSpecialTypeOrPrimitiveNoDate(value, treatAs) ==
    IF value.t = "null" \/ ~TypeofObject(value) THEN TRUE
    ELSE IF value.t = "object" /\ value.a \in treatAs THEN TRUE
    ELSE FALSE

\* _isSpecialTypeOrPrimitive without the check of the custom predicate
_isSpecialTypeOrPrimitiveBuiltIn(value, treatAs) ==
    IF value.t = "null" \/ ~TypeofObject(value) THEN TRUE
    ELSE IF value.t = "date" THEN TRUE
    ELSE FALSE

\* _isSpecialTypeOrPrimitive under the constructor option treatAsValue, given
\* as the set of constructor names the predicate accepts
_isSpecialTypeOrPrimitive(value, treatAs) ==
    IF value.t = "null" \/ ~TypeofObject(value) THEN TRUE
    ELSE IF value.t = "date" THEN TRUE
    ELSE IF value.t = "object" /\ value.a \in treatAs THEN TRUE
    ELSE FALSE

\* A TChange.  path is the string the code builds; segs are the keys and
\* indices the path descends through below the tracked property, one per
\* level; copied tells whether oldValue and newValue were produced by
\* cloneDeep or are the compared values themselves.
Change(path, segs, old, new, copied) ==
    [path |-> path, segs |-> segs, oldValue |-> old, newValue |-> new,
     copied |-> copied]

\* One aggregated change carrying deep copies of both sides
Aggregated(oldValue, newValue, currentPath, segs) ==
    <<Change(currentPath, segs, cloneDeep(oldValue), cloneDeep(newValue), TRUE)>>

\* The path suffix of element i (0-based) of an array
ItemSeg(i) == "[" \o ToString(i) \o "]"
\* The path suffix of property key of an object
PropSeg(key) == "." \o key

RECURSIVE _diffValues(_, _, _, _, _, _, _)
_diffValues(oldValue, newValue, currentPath, segs, maxDepth, currentDepth, treatAs) ==
    \* Base case 1: max depth reached
    IF currentDepth >= maxDepth
    THEN IF ~isEqual(oldValue, newValue)
         THEN Aggregated(oldValue, newValue, currentPath, segs)
         ELSE <<>>
    \* Base case 2: primitives or special types
    ELSE IF \/ _isSpecialTypeOrPrimitive(oldValue, treatAs)
            \/ _isSpecialTypeOrPrimitive(newValue, treatAs)
    THEN IF ~isEqual(oldValue, newValue)
         THEN <<Change(currentPath, segs, oldValue, newValue, FALSE)>>
         ELSE <<>>
    \* Recursive step: arrays
    ELSE IF IsArray(oldValue) /\ IsArray(newValue)
    THEN IF Len(oldValue.kids) # Len(newValue.kids)
         THEN Aggregated(oldValue, newValue, currentPath, segs)
         ELSE Flatten([i \in 1..Len(oldValue.kids) |->
                 _diffValues(oldValue.kids[i].v, newValue.kids[i].v,
                             currentPath \o ItemSeg(i - 1),
                             Append(segs, ToString(i - 1)),
                             maxDepth, currentDepth + 1, treatAs)])
    \* Recursive step: objects (typeof is 'object' for arrays too)
    ELSE IF TypeofObject(oldValue) /\ TypeofObject(newValue)
    THEN LET oldKeys == Keys(oldValue)
             newKeys == Keys(newValue)
         IN  IF \/ Len(oldKeys) # Len(newKeys)
                \/ \E i \in 1..Len(oldKeys) : ~HasOwnProperty(newValue, oldKeys[i])
             THEN Aggregated(oldValue, newValue, currentPath, segs)
             ELSE IF isEqual(oldValue, newValue) THEN <<>>
             ELSE Flatten([i \in 1..Len(oldKeys) |->
                     _diffValues(Get(oldValue, oldKeys[i]), Get(newValue, oldKeys[i]),
                                 currentPath \o PropSeg(oldKeys[i]),
                                 Append(segs, oldKeys[i]),
                                 maxDepth, currentDepth + 1, treatAs)])
    \* Base case 3: type mismatch or unexpected fallback
    ELSE IF ~isEqual(oldValue, newValue)
         THEN Aggregated(oldValue, newValue, currentPath, segs)
         ELSE <<>>

(***************************************************************************)
(* The world the tracker observes                                          *)
(***************************************************************************)
\* Owner objects: X and Y are two instances of one class, Z of another
Owners == {"X", "Y", "Z"}
\* obj.constructor.name
ConstructorName(o) == IF o \in {"X", "Y"} THEN "TypeA" ELSE "TypeB"
\* The tracked property of every owner
Props == {"p"}

VObj1 == Obj("Object", <<KV("x", Num(1)), KV("y", Obj("Object", <<KV("z", Num(1))>>))>>)
VObj2 == Obj("Object", <<KV("x", Num(1)), KV("y", Obj("Object", <<KV("z", Num(2))>>))>>)
VArr1 == Arr(<<Num(1)>>)
VArr2 == Arr(<<Num(1), Num(2)>>)
\* The values a property takes
Vals == {Str("a"), VObj1, VObj2, VArr1}
\* The maxDepth arguments passed to startTrack
Depths == {1, defaultMaxDepth}
\* The treatAsValue predicates a tracker is constructed with
Predicates == {{}}

\* The number of steps (calls and changes of the world) of a run
MaxSteps == 4

VARIABLES
    live,               \* live[o][p]: the current value of property p of owner o
    getterThrows,       \* getterThrows[o][p]: reading o[p] throws
    reachable,          \* reachable[o]: o has not been garbage collected
    trackedProperties,  \* the Map, as its entries in insertion order
    treatAsValue,       \* the constructor option
    lastOp,             \* the last step taken and its arguments
    outcome,            \* "returned" or "threw": how the last call ended
    result,             \* what the last peekChanges returned
    retval,             \* what the last startTrack returned
    retvalOf,           \* the owner and property whose value retval is, if it still is
    committed,          \* committed[key]: the live value when key's baseline was last stored
    steps

vars == <<live, getterThrows, reachable, trackedProperties, treatAsValue,
          lastOp, outcome, result, retval, retvalOf, committed, steps>>

\* PropertyKey made of the property name alone
PropertyKeyOfProperty(o, p) == p

\* PropertyKey telling the instances of one type apart
PropertyKeyOfInstance(o, p) == o \o "." \o p

\* `${obj.constructor.name}.${propertyName}`
PropertyKey(o, p) == ConstructorName(o) \o "." \o p
AllKeys == {PropertyKey(o, p) : o \in Owners, p \in Props}

\* ITrackedPropertyInfo, with the Map key it is stored under.  parentObjRef
\* is the owner's name; deref() gives the owner while it is reachable.
\* snapshot is what TakeSnapshot returns: shared is the set of the paths at
\* which the stored value holds an object of the live value itself.
TrackedInfo(key, o, p, snapshot, maxDepth) ==
    [key |-> key, parentObjRef |-> o, property |-> p,
     originalValueSnapshot |-> snapshot.value, shared |-> snapshot.shared,
     maxDepth |-> maxDepth]

\* Map.has / Map.get / Map.delete / Map.set on the ordered entries
MapHas(m, key) == \E i \in 1..Len(m) : m[i].key = key
MapGet(m, key) == m[CHOOSE i \in 1..Len(m) : m[i].key = key]
MapDelete(m, key) == SelectSeq(m, LAMBDA e : e.key # key)
MapSet(m, info) ==
    IF MapHas(m, info.key)
    THEN [i \in 1..Len(m) |-> IF m[i].key = info.key THEN info ELSE m[i]]
    ELSE Append(m, info)

\* The property p of owner o, and no property
Ref(o, p) == [owner |-> o, property |-> p]
NoRef == [owner |-> "", property |-> ""]

\* parentObjRef.deref() === obj
DerefIs(info, o) == reachable[info.parentObjRef] /\ info.parentObjRef = o

\* Every step counts against the length of the run
Tick == steps < MaxSteps /\ steps' = steps + 1

\* A step and its arguments; a peekChanges also records the step before it,
\* and a startTrack the owner of the entry it found under its key
Op(name, o, p, maxDepth, cloneThrows) ==
    [op |-> name, owner |-> o, property |-> p, maxDepth |-> maxDepth,
     cloneThrows |-> cloneThrows,
     prev |-> IF name = "peekChanges" THEN lastOp.op
              ELSE IF name = "startTrack" /\ MapHas(trackedProperties, PropertyKey(o, p))
              THEN MapGet(trackedProperties, PropertyKey(o, p)).parentObjRef
              ELSE ""]

Init ==
    /\ live = [o \in Owners |-> [p \in Props |-> VObj1]]
    /\ getterThrows = [o \in Owners |-> [p \in Props |-> FALSE]]
    /\ reachable = [o \in Owners |-> TRUE]
    /\ trackedProperties = <<>>
    /\ treatAsValue \in Predicates
    /\ lastOp = [op |-> "new", owner |-> "", property |-> "", maxDepth |-> 0,
                 cloneThrows |-> {}, prev |-> ""]
    /\ outcome = "returned"
    /\ result = <<>>
    /\ retval = Undefined
    /\ retvalOf = NoRef
    /\ committed = [k \in AllKeys |-> Undefined]
    /\ steps = 0

(***************************************************************************)
(* startTrack(obj, property, maxDepth); cloneThrows tells whether          *)
(* cloneDeep throws in this call.                                          *)
(***************************************************************************)
\* The snapshot of lines 150 and 242: cloneDeep(currentValue), a new value
\* that shares with the live one the objects lodash does not clone
TakeSnapshot(currentValue) ==
    [value |-> cloneDeep(currentValue), shared |-> SharedByClone(currentValue)]

\* StartTrackDiscard leaving the Map as it is until the copy has succeeded
StartTrackDiscardNothing(m, o, key) == m

\* The Map after lines 138-145: the entry under the key is removed, whether
\* it belongs to obj or to another instance
StartTrackDiscard(m, o, key) ==
    IF MapHas(m, key) /\ DerefIs(MapGet(m, key), o) THEN MapDelete(m, key)
    ELSE IF MapHas(m, key) THEN MapDelete(m, key)
    ELSE m

startTrack(o, p, maxDepth, cloneThrows) ==
    LET propertyKey == PropertyKey(o, p)
        currentValue == live[o][p]
    IN  /\ Tick
        /\ reachable[o]
        /\ lastOp' = Op("startTrack", o, p, maxDepth, IF cloneThrows THEN {propertyKey} ELSE {})
        /\ result' = <<>>
        /\ IF getterThrows[o][p]
           THEN \* obj[property] is read outside the try block
                /\ outcome' = "threw"
                /\ retval' = Undefined
                /\ retvalOf' = NoRef
                /\ UNCHANGED <<trackedProperties, committed>>
           ELSE /\ outcome' = "returned"
                /\ retval' = currentValue
                /\ retvalOf' = Ref(o, p)
                /\ IF cloneThrows
                   THEN /\ trackedProperties' =
                              StartTrackDiscard(trackedProperties, o, propertyKey)
                        /\ UNCHANGED committed
                   ELSE /\ trackedProperties' =
                              MapSet(StartTrackDiscard(trackedProperties, o, propertyKey),
                                     TrackedInfo(propertyKey, o, p,
                                                 TakeSnapshot(currentValue), maxDepth))
                        /\ committed' = [committed EXCEPT ![propertyKey] = currentValue]
        /\ UNCHANGED <<live, getterThrows, reachable, treatAsValue>>

(***************************************************************************)
(* peekChanges(); cloneThrows is the set of keys for whose entry cloneDeep *)
(* throws in this call.                                                    *)
(***************************************************************************)
\* The changes of one entry, as _diffValues reports them from the snapshot
\* and the current value (the isEqual check of line 199 included)
PropertyChanges(info, currentValue, treatAs) ==
    IF ~isEqual(currentValue, info.originalValueSnapshot)
    THEN _diffValues(info.originalValueSnapshot, currentValue,
                     info.property, <<>>, info.maxDepth, 0, treatAs)
    ELSE <<>>

\* A change as it stands in the result, marked with the entry it comes from
\* and with the paths at which its values hold objects of the live value:
\* an uncopied newValue is the live value's own object, a copy shares with
\* its original the objects lodash does not clone, and an oldValue shares
\* with the live value what the snapshot it comes from shares with it
Reported(info, changes) ==
    [i \in 1..Len(changes) |->
        [key |-> info.key, path |-> changes[i].path, segs |-> changes[i].segs,
         oldValue |-> changes[i].oldValue, newValue |-> changes[i].newValue,
         copied |-> changes[i].copied,
         oldShared |-> {q \in UncloneableBelow(changes[i].oldValue) \cup
                              (IF changes[i].copied THEN {} ELSE {<<>>}) :
                           changes[i].segs \o q \in info.shared},
         newShared |-> IF changes[i].copied
                       THEN UncloneableBelow(changes[i].newValue)
                       ELSE IF changes[i].newValue.t \in {"date", "array", "object"}
                       THEN {<<>>} ELSE {}]]

\* cloneDeep is called while these changes are built
CallsCloneDeep(changes) == \E i \in 1..Len(changes) : changes[i].copied

\* PeekEntry storing the current value as the new snapshot once reported
PeekEntryCommits(info, st, cloneThrows) ==
    LET o == info.parentObjRef
    IN  IF ~reachable[o]
        THEN [st EXCEPT !.map = MapDelete(st.map, info.key)]
        ELSE IF getterThrows[o][info.property] THEN st
        ELSE [st EXCEPT
                !.changes = @ \o Reported(info,
                               PropertyChanges(info, live[o][info.property], treatAsValue)),
                !.map = MapSet(st.map, [info EXCEPT !.originalValueSnapshot =
                                                      live[o][info.property]])]

\* PeekEntry ending the tracking of an entry once its changes are reported
PeekEntryForgets(info, st, cloneThrows) ==
    LET o == info.parentObjRef
    IN  IF ~reachable[o]
        THEN [st EXCEPT !.map = MapDelete(st.map, info.key)]
        ELSE IF getterThrows[o][info.property] THEN st
        ELSE LET propertyChanges ==
                     PropertyChanges(info, live[o][info.property], treatAsValue)
             IN  [st EXCEPT
                    !.changes = @ \o Reported(info, propertyChanges),
                    !.map = IF propertyChanges # <<>>
                            THEN MapDelete(st.map, info.key) ELSE st.map]

\* PeekEntry treating a failed read like a collected owner
PeekEntryDropsUnreadable(info, st, cloneThrows) ==
    LET o == info.parentObjRef
    IN  IF ~reachable[o] \/ getterThrows[o][info.property]
        THEN [st EXCEPT !.map = MapDelete(st.map, info.key)]
        ELSE [st EXCEPT
                !.changes = @ \o Reported(info,
                               PropertyChanges(info, live[o][info.property], treatAsValue))]

\* PeekEntry assigning an entry's changes to the result instead of pushing
\* them onto it
PeekEntryAssigns(info, st, cloneThrows) ==
    LET o == info.parentObjRef
    IN  IF ~reachable[o]
        THEN [st EXCEPT !.map = MapDelete(st.map, info.key)]
        ELSE IF getterThrows[o][info.property] THEN st
        ELSE LET propertyChanges ==
                     PropertyChanges(info, live[o][info.property], treatAsValue)
             IN  IF info.key \in cloneThrows /\ CallsCloneDeep(propertyChanges)
                 THEN [st EXCEPT !.changes = <<>>, !.threw = TRUE]
                 ELSE [st EXCEPT !.changes = Reported(info, propertyChanges)]

\* One iteration of the loop of lines 180-212, for entry info: st is the
\* Map, the changes collected so far, and whether cloneDeep has thrown
PeekEntry(info, st, cloneThrows) ==
    LET o == info.parentObjRef
    IN  IF ~reachable[o]
        THEN [st EXCEPT !.map = MapDelete(st.map, info.key)]
        ELSE IF getterThrows[o][info.property] THEN st
        ELSE LET propertyChanges ==
                     PropertyChanges(info, live[o][info.property], treatAsValue)
             IN  IF info.key \in cloneThrows /\ CallsCloneDeep(propertyChanges)
                 THEN [st EXCEPT !.changes = <<>>, !.threw = TRUE]
                 ELSE [st EXCEPT !.changes = @ \o Reported(info, propertyChanges)]

RECURSIVE PeekLoop(_, _, _)
\* The loop over the entries still to visit; an exception ends it
PeekLoop(todo, st, cloneThrows) ==
    IF todo = <<>> \/ st.threw THEN st
    ELSE PeekLoop(Tail(todo), PeekEntry(Head(todo), st, cloneThrows), cloneThrows)

peekChanges(cloneThrows) ==
    LET r == PeekLoop(trackedProperties,
                      [map |-> trackedProperties, changes |-> <<>>, threw |-> FALSE],
                      cloneThrows)
    IN  /\ Tick
        /\ lastOp' = Op("peekChanges", "", "", 0, cloneThrows)
        /\ trackedProperties' = r.map
        /\ outcome' = IF r.threw THEN "threw" ELSE "returned"
        /\ result' = r.changes
        /\ retval' = Undefined
        /\ retvalOf' = NoRef
        /\ UNCHANGED <<live, getterThrows, reachable, treatAsValue, committed>>

(***************************************************************************)
(* updateSnapshots(); cloneThrows as for peekChanges.                      *)
(***************************************************************************)
\* UpdateEntry removing an entry whose property cannot be read
UpdateEntryDropsUnreadable(info, st, cloneThrows) ==
    LET o == info.parentObjRef
    IN  IF ~reachable[o] \/ getterThrows[o][info.property]
        THEN [st EXCEPT !.map = MapDelete(st.map, info.key)]
        ELSE IF info.key \in cloneThrows
        THEN [st EXCEPT !.map = MapDelete(st.map, info.key)]
        ELSE [map |-> MapSet(st.map,
                        [info EXCEPT !.originalValueSnapshot =
                                        cloneDeep(live[o][info.property])]),
              committed |-> [st.committed EXCEPT ![info.key] = live[o][info.property]]]

\* UpdateEntry keeping an entry, with its old snapshot, when cloneDeep throws
UpdateEntryKeepsOnCloneError(info, st, cloneThrows) ==
    LET o == info.parentObjRef
    IN  IF ~reachable[o]
        THEN [st EXCEPT !.map = MapDelete(st.map, info.key)]
        ELSE IF getterThrows[o][info.property] THEN st
        ELSE IF info.key \in cloneThrows THEN st
        ELSE [map |-> MapSet(st.map,
                        [info EXCEPT !.originalValueSnapshot =
                                        cloneDeep(live[o][info.property])]),
              committed |-> [st.committed EXCEPT ![info.key] = live[o][info.property]]]

\* One iteration of the loop of lines 222-247, for entry info: st is the
\* Map and the committed values
UpdateEntry(info, st, cloneThrows) ==
    LET o == info.parentObjRef
    IN  IF ~reachable[o]
        THEN [st EXCEPT !.map = MapDelete(st.map, info.key)]
        ELSE IF getterThrows[o][info.property] THEN st
        ELSE IF info.key \in cloneThrows
        THEN [st EXCEPT !.map = MapDelete(st.map, info.key)]
        ELSE [map |-> MapSet(st.map,
                        [info EXCEPT
                           !.originalValueSnapshot = TakeSnapshot(live[o][info.property]).value,
                           !.shared = TakeSnapshot(live[o][info.property]).shared]),
              committed |-> [st.committed EXCEPT ![info.key] = live[o][info.property]]]

\* The loop of lines 222-247 over the entries of the Map, in insertion order
RECURSIVE UpdateLoop(_, _, _)
UpdateLoop(todo, st, cloneThrows) ==
    IF todo = <<>> THEN st
    ELSE UpdateLoop(Tail(todo), UpdateEntry(Head(todo), st, cloneThrows), cloneThrows)

updateSnapshots(cloneThrows) ==
    LET r == UpdateLoop(trackedProperties,
                        [map |-> trackedProperties, committed |-> committed],
                        cloneThrows)
    IN  /\ Tick
        /\ lastOp' = Op("updateSnapshots", "", "", 0, cloneThrows)
        /\ trackedProperties' = r.map
        /\ committed' = r.committed
        /\ outcome' = "returned"
        /\ result' = <<>>
        /\ retval' = Undefined
        /\ retvalOf' = NoRef
        /\ UNCHANGED <<live, getterThrows, reachable, treatAsValue>>

(***************************************************************************)
(* stopTrack(obj, property) and stopAllTracks()                            *)
(***************************************************************************)
\* stopTrack removing the entry under the key whichever instance holds it
stopTrackOfAnyInstance(o, p) ==
    LET propertyKey == PropertyKey(o, p)
    IN  /\ Tick
        /\ reachable[o]
        /\ lastOp' = Op("stopTrack", o, p, 0, {})
        /\ trackedProperties' = MapDelete(trackedProperties, propertyKey)
        /\ outcome' = "returned"
        /\ result' = <<>>
        /\ retval' = Undefined
        /\ retvalOf' = NoRef
        /\ UNCHANGED <<live, getterThrows, reachable, treatAsValue, committed>>

stopTrack(o, p) ==
    LET propertyKey == PropertyKey(o, p)
    IN  /\ Tick
        /\ reachable[o]
        /\ lastOp' = Op("stopTrack", o, p, 0, {})
        /\ trackedProperties' =
              IF MapHas(trackedProperties, propertyKey)
                 /\ DerefIs(MapGet(trackedProperties, propertyKey), o)
              THEN MapDelete(trackedProperties, propertyKey)
              ELSE trackedProperties
        /\ outcome' = "returned"
        /\ result' = <<>>
        /\ retval' = Undefined
        /\ retvalOf' = NoRef
        /\ UNCHANGED <<live, getterThrows, reachable, treatAsValue, committed>>

\* stopAllTracks keeping the entries whose owner has been collected
stopAllTracksOfLiveOwners ==
    /\ Tick
    /\ lastOp' = Op("stopAllTracks", "", "", 0, {})
    /\ trackedProperties' =
          SelectSeq(trackedProperties, LAMBDA e : ~reachable[e.parentObjRef])
    /\ outcome' = "returned"
    /\ result' = <<>>
    /\ retval' = Undefined
    /\ retvalOf' = NoRef
    /\ UNCHANGED <<live, getterThrows, reachable, treatAsValue, committed>>

stopAllTracks ==
    /\ Tick
    /\ lastOp' = Op("stopAllTracks", "", "", 0, {})
    /\ trackedProperties' = <<>>
    /\ outcome' = "returned"
    /\ result' = <<>>
    /\ retval' = Undefined
    /\ retvalOf' = NoRef
    /\ UNCHANGED <<live, getterThrows, reachable, treatAsValue, committed>>

(***************************************************************************)
(* The caller and the runtime, between two calls                           *)
(***************************************************************************)
\* The caller can turn old into new by changing it in place: both are
\* arrays, both are Dates (setTime) or both are objects of one class.  Any
\* other change puts a new value in the place of the old one.
InPlace(old, new) ==
    /\ old.t = new.t
    /\ old.t \in {"array", "date"} \/ (old.t = "object" /\ old.a = new.a)

RECURSIVE CanKeep(_, _)
\* The objects of old, by their paths, that the caller can have kept while
\* making the property's value new: the object at a path can still be
\* there, with its new content, when every value on the way to it can have
\* been changed in place
CanKeep(old, new) ==
    IF ~InPlace(old, new) THEN {}
    ELSE {<<>>} \cup UNION {{<<k>> \o q : q \in CanKeep(Get(old, k), Get(new, k))} :
                             k \in KeySet(old) \cap KeySet(new)}

\* The ways the caller can make the property's value new: the set of the
\* objects of old that it keeps and changes in place.  Nothing kept is an
\* assignment of a new value (user.address = newAddress); only the outermost
\* kept is an assignment to each of its properties; an object is kept only
\* inside an object that is kept.
Keeps(old, new) ==
    {kept \in SUBSET CanKeep(old, new) :
        \A r \in kept : \A n \in 0..Len(r) : SubSeq(r, 1, n) \in kept}

RECURSIVE PutAll(_, _, _, _)
\* held with, at each path q of qs, the value new has at the path base \o q
PutAll(held, qs, new, base) ==
    IF qs = {} THEN held
    ELSE LET q == CHOOSE x \in qs : TRUE
         IN  PutAll(Put(held, q, At(new, base \o q)), qs \ {q}, new, base)

\* What a change of a property's value to new does to a value held
\* elsewhere that shares objects with it: at each path q of shared, held has
\* the object the property's value had at base \o q.  A shared object that
\* the caller kept shows its new content; one that the caller replaced is
\* shared no more, and held keeps it as it was.
Follow(held, base, shared, new, kept) ==
    LET still == {q \in shared : base \o q \in kept}
    IN  [value |-> PutAll(held, still, new, base), shared |-> still]

\* What a change of obj[property] to new does to the entry info: the
\* objects its snapshot shares with the live value follow the change
Seen(info, o, p, new, kept) ==
    IF info.parentObjRef = o /\ info.property = p /\ info.shared # {}
    THEN [info EXCEPT
            !.originalValueSnapshot =
                Follow(info.originalValueSnapshot, <<>>, info.shared, new, kept).value,
            !.shared = Follow(info.originalValueSnapshot, <<>>, info.shared, new, kept).shared]
    ELSE info

\* What a change of obj[property] to new does to the change c of a result
\* the caller holds: the objects its values share with the live value
\* follow the change
SeenInResult(c, o, p, new, kept) ==
    IF /\ MapHas(trackedProperties, c.key)
       /\ MapGet(trackedProperties, c.key).parentObjRef = o
       /\ MapGet(trackedProperties, c.key).property = p
    THEN [c EXCEPT
            !.oldValue = Follow(c.oldValue, c.segs, c.oldShared, new, kept).value,
            !.oldShared = Follow(c.oldValue, c.segs, c.oldShared, new, kept).shared,
            !.newValue = Follow(c.newValue, c.segs, c.newShared, new, kept).value,
            !.newShared = Follow(c.newValue, c.segs, c.newShared, new, kept).shared]
    ELSE c

\* The caller makes the live value of a property v, keeping the objects at
\* the paths kept of the old value, one of Keeps(live[o][p], v), and putting
\* new ones everywhere else.
\* What startTrack returned (line 165) and what a change record holds
\* uncopied (lines 285-298) are objects of the old value: they change with
\* the live value as long as the caller keeps them.  A new object of equal
\* content in the place of one of these is a change too.
Mutate(o, p, v, kept) ==
    /\ Tick
    /\ reachable[o]
    /\ LET can == CanKeep(live[o][p], v)
       IN  /\ kept \subseteq can
           /\ \A r \in kept : \A n \in 0..Len(r) : SubSeq(r, 1, n) \in kept
           /\ v # live[o][p] \/ kept # can
    /\ live' = [live EXCEPT ![o][p] = v]
    /\ trackedProperties' = [i \in 1..Len(trackedProperties) |->
                                Seen(trackedProperties[i], o, p, v, kept)]
    /\ result' = [j \in 1..Len(result) |->
                    SeenInResult(result[j], o, p, v, kept)]
    /\ IF retvalOf = Ref(o, p)
       THEN IF <<>> \in kept
            THEN retval' = v /\ UNCHANGED retvalOf
            ELSE retvalOf' = NoRef /\ UNCHANGED retval
       ELSE UNCHANGED <<retval, retvalOf>>
    /\ lastOp' = Op("mutate", o, p, 0, {})
    /\ UNCHANGED <<getterThrows, reachable, treatAsValue, outcome, committed>>

\* The property's getter starts or stops throwing
SetGetter(o, p) ==
    /\ Tick
    /\ reachable[o]
    /\ getterThrows' = [getterThrows EXCEPT ![o][p] = ~getterThrows[o][p]]
    /\ lastOp' = Op("getter", o, p, 0, {})
    /\ UNCHANGED <<live, reachable, trackedProperties, treatAsValue,
                   outcome, result, retval, retvalOf, committed>>

\* The owner is garbage collected: its weak reference resolves to nothing
Collect(o) ==
    /\ Tick
    /\ reachable[o]
    /\ reachable' = [reachable EXCEPT ![o] = FALSE]
    /\ live' = [live EXCEPT ![o] = [p \in Props |-> Undefined]]
    /\ getterThrows' = [getterThrows EXCEPT ![o] = [p \in Props |-> FALSE]]
    /\ retvalOf' = IF retvalOf.owner = o THEN NoRef ELSE retvalOf
    /\ lastOp' = Op("collect", o, "", 0, {})
    /\ UNCHANGED <<trackedProperties, treatAsValue, outcome, result, retval, committed>>

\* The keys of the entries in the Map
TrackedKeys == {trackedProperties[i].key : i \in 1..Len(trackedProperties)}

Next ==
    \/ \E o \in Owners, p \in Props, d \in Depths, c \in BOOLEAN : startTrack(o, p, d, c)
    \/ \E c \in SUBSET TrackedKeys : peekChanges(c)
    \/ \E c \in SUBSET TrackedKeys : updateSnapshots(c)
    \/ \E o \in Owners, p \in Props : stopTrack(o, p)
    \/ stopAllTracks
    \/ /\ steps < MaxSteps
       /\ \E o \in Owners, p \in Props, v \in Vals :
             \E kept \in Keeps(live[o][p], v) : Mutate(o, p, v, kept)
    \/ \E o \in Owners, p \in Props : SetGetter(o, p)
    \/ \E o \in Owners : Collect(o)

Spec == Init /\ [][Next]_vars

\* The tracker after startTrack(X, p) and startTrack(Z, p) on a new
\* instance: two entries, of two types, in this order.  The second call
\* found no entry under its key.
InitTracked ==
    /\ live = [o \in Owners |-> [p \in Props |-> VObj1]]
    /\ getterThrows = [o \in Owners |-> [p \in Props |-> FALSE]]
    /\ reachable = [o \in Owners |-> TRUE]
    /\ trackedProperties =
          <<TrackedInfo(PropertyKey("X", "p"), "X", "p", TakeSnapshot(VObj1), defaultMaxDepth),
            TrackedInfo(PropertyKey("Z", "p"), "Z", "p", TakeSnapshot(VObj1), defaultMaxDepth)>>
    /\ treatAsValue \in Predicates
    /\ lastOp = [Op("startTrack", "Z", "p", defaultMaxDepth, {}) EXCEPT !.prev = ""]
    /\ outcome = "returned"
    /\ result = <<>>
    /\ retval = VObj1
    /\ retvalOf = Ref("Z", "p")
    /\ committed = [k \in AllKeys |->
                      IF k \in {PropertyKey("X", "p"), PropertyKey("Z", "p")}
                      THEN VObj1 ELSE Undefined]
    /\ steps = 0

SpecTracked == InitTracked /\ [][Next]_vars

(***************************************************************************)
(* Two owners of two types, tracked with different maxDepth: the calls     *)
(* that visit several entries                                              *)
(***************************************************************************)
PairOwners == {"X", "Z"}
\* The number of steps of a run over the two entries
PairSteps == 3

\* The tracker after startTrack(X, p, 1) and startTrack(Z, p)
InitPair ==
    /\ live = [o \in Owners |-> [p \in Props |-> VObj1]]
    /\ getterThrows = [o \in Owners |-> [p \in Props |-> FALSE]]
    /\ reachable = [o \in Owners |-> TRUE]
    /\ trackedProperties =
          <<TrackedInfo(PropertyKey("X", "p"), "X", "p", TakeSnapshot(VObj1), 1),
            TrackedInfo(PropertyKey("Z", "p"), "Z", "p", TakeSnapshot(VObj1), defaultMaxDepth)>>
    /\ treatAsValue \in Predicates
    /\ lastOp = [Op("startTrack", "Z", "p", defaultMaxDepth, {}) EXCEPT !.prev = ""]
    /\ outcome = "returned"
    /\ result = <<>>
    /\ retval = VObj1
    /\ retvalOf = Ref("Z", "p")
    /\ committed = [k \in AllKeys |->
                      IF k \in {PropertyKey("X", "p"), PropertyKey("Z", "p")}
                      THEN VObj1 ELSE Undefined]
    /\ steps = 0

PairTrack(o, d, c) == steps < PairSteps /\ startTrack(o, "p", d, c)
PairPeek(c) == steps < PairSteps /\ peekChanges(c)
PairUpdate(c) == steps < PairSteps /\ updateSnapshots(c)
PairMutate(o, v, kept) == steps < PairSteps /\ Mutate(o, "p", v, kept)
PairSetGetter(o) == steps < PairSteps /\ SetGetter(o, "p")
PairCollect(o) == steps < PairSteps /\ Collect(o)
PairStop(o) == steps < PairSteps /\ stopTrack(o, "p")
PairStopAll == steps < PairSteps /\ stopAllTracks

NextPair ==
    \/ \E o \in PairOwners, d \in Depths, c \in BOOLEAN : PairTrack(o, d, c)
    \/ \E c \in SUBSET TrackedKeys : PairPeek(c)
    \/ \E c \in SUBSET TrackedKeys : PairUpdate(c)
    \/ /\ steps < PairSteps
       /\ \E o \in PairOwners, v \in Vals :
             \E kept \in Keeps(live[o]["p"], v) : PairMutate(o, v, kept)
    \/ \E o \in PairOwners : PairSetGetter(o)
    \/ \E o \in PairOwners : PairCollect(o)
    \/ \E o \in PairOwners : PairStop(o)
    \/ PairStopAll

SpecPair == InitPair /\ [][NextPair]_vars

(***************************************************************************)
(* One owner whose property runs through values of every shape the differ  *)
(* tells apart, tracked at every depth, with and without a predicate       *)
(***************************************************************************)
\* [2]
VArr3 == Arr(<<Num(2)>>)
\* { 0: 1 }: the keys and values of the array [1] in a plain object
VIndexed == Obj("Object", <<KV("0", Num(1))>>)
IdA == Obj("Object", <<KV("id", Obj("CustomId", <<KV("v", Str("a"))>>))>>)
IdB == Obj("Object", <<KV("id", Obj("CustomId", <<KV("v", Str("b"))>>))>>)

\* A value holding a ComplexData, and the same with both its fields changed
CxA == Obj("Object", <<KV("c", Obj("ComplexData", <<KV("name", Str("a")), KV("value", Num(1))>>))>>)
CxB == Obj("Object", <<KV("c", Obj("ComplexData", <<KV("name", Str("b")), KV("value", Num(2))>>))>>)

\* { 0: 2 }
VIndexed2 == Obj("Object", <<KV("0", Num(2))>>)
\* An object with the key "a.b" beside the key a of an object with the key
\* b, and the same with both values changed
DotA == Obj("Object", <<KV("a.b", Num(1)), KV("a", Obj("Object", <<KV("b", Num(1))>>))>>)
DotB == Obj("Object", <<KV("a.b", Num(2)), KV("a", Obj("Object", <<KV("b", Num(2))>>))>>)

\* Objects lodash does not clone.  new Error('x'), and the same Error after
\* its own property code was set, to 5 and then to 6
VErr == Obj("Error", <<>>)
VErrCode == Obj("Error", <<KV("code", Num(5))>>)
VErrCode6 == Obj("Error", <<KV("code", Num(6))>>)
\* { e: new Error('x') }, and the same after e.code was set
VHoldsErr == Obj("Object", <<KV("e", VErr)>>)
VHoldsErrCode == Obj("Object", <<KV("e", VErrCode)>>)

DiffVals ==
    {Null, Num(1), Str("a"), Date("d1"), Date("d2"),
     VObj1, VObj2,
     VArr1, VArr2, VArr3, VIndexed, VIndexed2, IdA, IdB, CxA, CxB, DotA, DotB,
     VErrCode, VHoldsErr}
DiffDepths == {-1, 0, 1, 2, defaultMaxDepth}
\* The classes the tests' predicate isCustomValueType accepts
ValueTypes == {"CustomId", "ComplexData"}
DiffPredicates == {{}, ValueTypes}
\* The number of steps of a run that tracks, changes and peeks one property
DiffSteps == 3

InitDiff ==
    /\ live \in {[o \in Owners |-> [p \in Props |-> IF o = "X" THEN v ELSE VObj1]] :
                    v \in DiffVals}
    /\ getterThrows = [o \in Owners |-> [p \in Props |-> FALSE]]
    /\ reachable = [o \in Owners |-> TRUE]
    /\ trackedProperties = <<>>
    /\ treatAsValue \in DiffPredicates
    /\ lastOp = [op |-> "new", owner |-> "", property |-> "", maxDepth |-> 0,
                 cloneThrows |-> {}, prev |-> ""]
    /\ outcome = "returned"
    /\ result = <<>>
    /\ retval = Undefined
    /\ retvalOf = NoRef
    /\ committed = [k \in AllKeys |-> Undefined]
    /\ steps = 0

\* The calls and changes of such a run: at most DiffSteps of them
DiffTrack(d) == steps < DiffSteps /\ startTrack("X", "p", d, FALSE)
DiffMutate(v, kept) == steps < DiffSteps /\ Mutate("X", "p", v, kept)
DiffPeek == steps < DiffSteps /\ peekChanges({})

NextDiff ==
    \/ \E d \in DiffDepths : DiffTrack(d)
    \/ /\ steps < DiffSteps
       /\ \E v \in DiffVals :
             \E kept \in Keeps(live["X"]["p"], v) : DiffMutate(v, kept)
    \/ DiffPeek

SpecDiff == InitDiff /\ [][NextDiff]_vars

(***************************************************************************)
(* One property whose value is, or holds, an object lodash does not clone  *)
(***************************************************************************)
OpaqueVals == {Str("a"), VObj1, VErr, VErrCode, VErrCode6, VHoldsErr, VHoldsErrCode}
\* The maxDepth arguments of such a run
OpaqueDepths == {0, 1, defaultMaxDepth}
\* The number of steps of such a run
OpaqueSteps == 4

InitOpaque ==
    /\ live \in {[o \in Owners |-> [p \in Props |-> IF o = "X" THEN v ELSE VObj1]] :
                    v \in OpaqueVals}
    /\ getterThrows = [o \in Owners |-> [p \in Props |-> FALSE]]
    /\ reachable = [o \in Owners |-> TRUE]
    /\ trackedProperties = <<>>
    /\ treatAsValue \in Predicates
    /\ lastOp = [op |-> "new", owner |-> "", property |-> "", maxDepth |-> 0,
                 cloneThrows |-> {}, prev |-> ""]
    /\ outcome = "returned"
    /\ result = <<>>
    /\ retval = Undefined
    /\ retvalOf = NoRef
    /\ committed = [k \in AllKeys |-> Undefined]
    /\ steps = 0

OpaqueTrack(d) == steps < OpaqueSteps /\ startTrack("X", "p", d, FALSE)
OpaqueMutate(v, kept) == steps < OpaqueSteps /\ Mutate("X", "p", v, kept)
OpaquePeek == steps < OpaqueSteps /\ peekChanges({})
OpaqueUpdate == steps < OpaqueSteps /\ updateSnapshots({})

NextOpaque ==
    \/ \E d \in OpaqueDepths : OpaqueTrack(d)
    \/ /\ steps < OpaqueSteps
       /\ \E v \in OpaqueVals :
             \E kept \in Keeps(live["X"]["p"], v) : OpaqueMutate(v, kept)
    \/ OpaquePeek
    \/ OpaqueUpdate

SpecOpaque == InitOpaque /\ [][NextOpaque]_vars

(***************************************************************************)
(* The caller changes, in place, a value taken from a change record        *)
(***************************************************************************)
HandOutVals == {Str("a"), Date("d1"), Date("d2"), VObj1, VObj2, VArr1, VArr2}
\* The number of steps of a run that peeks and changes what it was handed
HandOutSteps == 3

\* The tracker after startTrack(X, p, d), which returned the value b it
\* found (line 165), and an assignment of another value to X.p
InitHandOut ==
    /\ \E b \in HandOutVals, w \in HandOutVals, d \in Depths :
          /\ w # b
          /\ live = [o \in Owners |-> [p \in Props |-> IF o = "X" THEN w ELSE VObj1]]
          /\ trackedProperties =
                <<TrackedInfo(PropertyKey("X", "p"), "X", "p", TakeSnapshot(b), d)>>
          /\ committed = [k \in AllKeys |->
                            IF k = PropertyKey("X", "p") THEN b ELSE Undefined]
          /\ retval = b
    /\ getterThrows = [o \in Owners |-> [p \in Props |-> FALSE]]
    /\ reachable = [o \in Owners |-> TRUE]
    /\ treatAsValue \in Predicates
    /\ lastOp = Op("mutate", "X", "p", 0, {})
    /\ outcome = "returned"
    /\ result = <<>>
    /\ retvalOf = NoRef
    /\ steps = 0

\* The caller changes result[j].oldValue, an object, array or date, into v
\* in place.  A value the differ handed out as it is (lines 285-298) is the
\* object inside the stored snapshot; a copy is the caller's own.
ChangeHandedOut(j, v) ==
    LET c == result[j]
    IN  /\ steps < HandOutSteps /\ steps' = steps + 1
        /\ c.oldValue.t = v.t /\ v.t \in {"object", "array", "date"}
        /\ v # c.oldValue
        /\ result' = [result EXCEPT ![j].oldValue = v]
        /\ trackedProperties' =
              [i \in 1..Len(trackedProperties) |->
                  IF trackedProperties[i].key = c.key /\ ~c.copied
                  THEN [trackedProperties[i] EXCEPT
                          !.originalValueSnapshot = Put(@, c.segs, v)]
                  ELSE trackedProperties[i]]
        /\ lastOp' = Op("changeHandedOut", "", "", 0, {})
        /\ UNCHANGED <<live, getterThrows, reachable, treatAsValue,
                       outcome, retval, retvalOf, committed>>

HandOutPeek == steps < HandOutSteps /\ peekChanges({})

NextHandOut ==
    \/ HandOutPeek
    \/ \E j \in 1..Len(result), v \in HandOutVals : ChangeHandedOut(j, v)

SpecHandOut == InitHandOut /\ [][NextHandOut]_vars

(***************************************************************************)
(* Properties                                                              *)
(***************************************************************************)
\* The entries of a Map, as a set
Entries(m) == {m[i] : i \in 1..Len(m)}

\* The property of an entry can be read: its owner is reachable and the
\* getter does not throw
Readable(info) ==
    reachable[info.parentObjRef] /\ ~getterThrows[info.parentObjRef][info.property]

\* The current value of an entry's property differs from its snapshot
Pending(info) ==
    ~isEqual(live[info.parentObjRef][info.property], info.originalValueSnapshot)

\* The changes a peekChanges result holds for the entry under key
ChangesOf(changes, key) == SelectSeq(changes, LAMBDA c : c.key = key)

\* C1: a peekChanges that immediately follows updateSnapshots reports no
\* change for any entry whose owner is reachable and whose property is
\* readable (the entries whose copy failed are gone), and returns the empty
\* list when that holds for all entries.
C1_CommitResetsBaseline ==
    [][(lastOp.op = "updateSnapshots" /\ lastOp'.op = "peekChanges") =>
          /\ \A e \in Entries(trackedProperties) :
                Readable(e) => ChangesOf(result', e.key) = <<>>
          /\ (\A e \in Entries(trackedProperties) : Readable(e)) => result' = <<>>
          /\ outcome' = "returned"]_vars

\* C2: every oldValue in a peekChanges result is the part, at the change's
\* path, of the value the property had when the entry's baseline was last
\* stored by startTrack or updateSnapshots.
C2_OldValueFromLastBaseline ==
    \A j \in 1..Len(result) :
        result[j].oldValue = At(committed[result[j].key], result[j].segs)

\* C3: peekChanges leaves every entry it keeps as it was (owner, baseline,
\* maxDepth, position), and removes only entries whose owner is gone.
C3_PeekKeepsBaselines ==
    [][lastOp'.op = "peekChanges" =>
          /\ Entries(trackedProperties') \subseteq Entries(trackedProperties)
          /\ \A e \in Entries(trackedProperties) \ Entries(trackedProperties') :
                ~reachable[e.parentObjRef]
          /\ \A i, j \in 1..Len(trackedProperties') :
                i < j =>
                  \E a, b \in 1..Len(trackedProperties) :
                     /\ a < b
                     /\ trackedProperties[a] = trackedProperties'[i]
                     /\ trackedProperties[b] = trackedProperties'[j]]_vars

\* A peekChanges that reported a pending change of an entry still registered
C3_Witness ==
    /\ lastOp.op = "peekChanges" /\ outcome = "returned"
    /\ \E e \in Entries(trackedProperties) :
          Pending(e) /\ ChangesOf(result, e.key) # <<>>

\* C4: two consecutive peekChanges calls that both return, with nothing
\* done in between, return equal lists.
C4_IdempotentPeek ==
    [][(/\ lastOp.op = "peekChanges" /\ outcome = "returned"
        /\ lastOp'.op = "peekChanges" /\ outcome' = "returned") =>
          result' = result]_vars

\* The second of two consecutive peekChanges calls, reporting changes
C4_Witness ==
    /\ lastOp.op = "peekChanges" /\ lastOp.prev = "peekChanges"
    /\ outcome = "returned"
    /\ result # <<>>

\* C5: no public operation throws: every call of startTrack, peekChanges,
\* updateSnapshots, stopTrack and stopAllTracks returns normally, also when a
\* property read or a deep copy inside it throws.
C5_NoOperationThrows == outcome = "returned"

\* C6: a startTrack whose property read throws is silently aborted: the call
\* returns normally, it creates no entry, and a peekChanges that follows
\* reports nothing for that property.
C6_ReadFailureAbortsSilently ==
    [][(/\ lastOp'.op = "startTrack"
        /\ getterThrows[lastOp'.owner][lastOp'.property]) =>
          /\ outcome' = "returned"
          /\ Entries(trackedProperties') \subseteq Entries(trackedProperties)
          /\ \A c \in SUBSET TrackedKeys' :
                PeekLoop(trackedProperties',
                         [map |-> trackedProperties', changes |-> <<>>, threw |-> FALSE],
                         c).changes = <<>>]_vars

\* C7: a startTrack whose deep copy fails is a no-op on the registry: every
\* entry present before the call, the one under the same key included, is
\* still present and unchanged, none is added, and the call returns the live
\* value.
C7_CopyFailureIsNoOp ==
    [][(/\ lastOp'.op = "startTrack"
        /\ lastOp'.cloneThrows # {}
        /\ ~getterThrows[lastOp'.owner][lastOp'.property]) =>
          /\ trackedProperties' = trackedProperties
          /\ outcome' = "returned"
          /\ retval' = live[lastOp'.owner][lastOp'.property]]_vars

\* C7 as amended: a startTrack whose deep copy fails adds no entry and
\* removes the entry stored under the same key, if any; the entries under
\* other keys are unchanged and the call returns the live value.
C7_CopyFailureDropsOnlyKey ==
    [][(/\ lastOp'.op = "startTrack"
        /\ lastOp'.cloneThrows # {}
        /\ ~getterThrows[lastOp'.owner][lastOp'.property]) =>
          /\ trackedProperties' =
                MapDelete(trackedProperties,
                          PropertyKey(lastOp'.owner, lastOp'.property))
          /\ outcome' = "returned"
          /\ retval' = live[lastOp'.owner][lastOp'.property]]_vars

\* A startTrack whose copy failed left its key untracked and another key's
\* entry in place
C7_Witness ==
    /\ lastOp.op = "startTrack" /\ lastOp.cloneThrows # {}
    /\ outcome = "returned"
    /\ retval = live[lastOp.owner][lastOp.property]
    /\ ~MapHas(trackedProperties, PropertyKey(lastOp.owner, lastOp.property))
    /\ trackedProperties # <<>>

\* C8: an updateSnapshots during which reading an entry's property throws
\* keeps that entry, with the baseline it had, so that later changes are
\* still reported against that baseline.
C8_UpdateKeepsUnreadable ==
    [][lastOp'.op = "updateSnapshots" =>
          \A e \in Entries(trackedProperties) :
             (reachable[e.parentObjRef] /\ ~Readable(e)) =>
                /\ e \in Entries(trackedProperties')
                /\ committed'[e.key] = committed[e.key]]_vars

\* An updateSnapshots that skipped an unreadable entry whose value differs
\* from its baseline
C8_Witness ==
    /\ lastOp.op = "updateSnapshots"
    /\ \E e \in Entries(trackedProperties) :
          reachable[e.parentObjRef] /\ ~Readable(e) /\ Pending(e)

\* C9: an updateSnapshots during which the deep copy of an entry's value
\* throws removes that entry, and peekChanges reports changes only for keys
\* that are in the registry.
C9_UpdateDropsUnclonable ==
    /\ [][lastOp'.op = "updateSnapshots" =>
            \A e \in Entries(trackedProperties) :
               (Readable(e) /\ e.key \in lastOp'.cloneThrows) =>
                  ~MapHas(trackedProperties', e.key)]_vars
    /\ [](\A j \in 1..Len(result) : MapHas(trackedProperties, result[j].key))

\* An updateSnapshots removed the entry of a reachable, readable owner
\* because its value could not be copied
C9_Witness ==
    /\ lastOp.op = "updateSnapshots"
    /\ \E k \in lastOp.cloneThrows :
          /\ ~MapHas(trackedProperties, k)
          /\ \A o \in Owners, p \in Props :
                PropertyKey(o, p) = k => reachable[o] /\ ~getterThrows[o][p]

\* C10: a peekChanges during which reading an entry's property throws
\* reports no change for that entry and leaves the entry, with its baseline,
\* in the registry.
C10_PeekSkipsUnreadable ==
    [][lastOp'.op = "peekChanges" =>
          \A e \in Entries(trackedProperties) :
             (reachable[e.parentObjRef] /\ ~Readable(e)) =>
                /\ e \in Entries(trackedProperties')
                /\ ChangesOf(result', e.key) = <<>>]_vars

\* A peekChanges that returned while an entry with a pending change was
\* unreadable
C10_Witness ==
    /\ lastOp.op = "peekChanges" /\ outcome = "returned"
    /\ \E e \in Entries(trackedProperties) :
          /\ reachable[e.parentObjRef] /\ ~Readable(e) /\ Pending(e)
          /\ ChangesOf(result, e.key) = <<>>

\* C11: when the owner of an entry has become unreachable, the next
\* peekChanges or updateSnapshots removes that entry, reports no change for
\* it, raises no error, and leaves every other entry in place (an entry whose
\* own copy fails in that updateSnapshots aside).
C11_GoneOwnerIsDropped ==
    [][lastOp'.op \in {"peekChanges", "updateSnapshots"} =>
          \A e \in Entries(trackedProperties) :
             ~reachable[e.parentObjRef] =>
                /\ ~MapHas(trackedProperties', e.key)
                /\ ChangesOf(result', e.key) = <<>>
                /\ outcome' = "returned"
                /\ \A f \in Entries(trackedProperties) :
                      (/\ reachable[f.parentObjRef]
                       /\ \/ lastOp'.op = "peekChanges"
                          \/ ~Readable(f)
                          \/ f.key \notin lastOp'.cloneThrows) =>
                         MapHas(trackedProperties', f.key)]_vars

\* The entries of a Map held for owners of o's type and for property p
EntriesOfType(m, o, p) ==
    {e \in Entries(m) :
        ConstructorName(e.parentObjRef) = ConstructorName(o) /\ e.property = p}

\* C12: the registry holds at most one entry per (type name, property).  A
\* startTrack that succeeds for an owner Y leaves, for Y's type and that
\* property, exactly one entry, owned by Y with what cloneDeep gives for Y's
\* value as baseline, also when another owner X of the same type held the entry; a
\* stopTrack by the holder then leaves no entry for the pair, and a stopTrack
\* for a pair without entry changes nothing.
C12_OneEntryPerTypeAndProperty ==
    /\ [](\A o \in Owners, p \in Props :
             Cardinality(EntriesOfType(trackedProperties, o, p)) <= 1)
    /\ [][(/\ lastOp'.op = "startTrack"
           /\ outcome' = "returned"
           /\ lastOp'.cloneThrows = {}) =>
             \E e \in Entries(trackedProperties') :
                /\ EntriesOfType(trackedProperties', lastOp'.owner, lastOp'.property) = {e}
                /\ e.parentObjRef = lastOp'.owner
                /\ e.originalValueSnapshot =
                      cloneDeep(live[lastOp'.owner][lastOp'.property])]_vars
    /\ [][lastOp'.op = "stopTrack" =>
             LET held == EntriesOfType(trackedProperties, lastOp'.owner, lastOp'.property)
             IN  /\ (\E e \in held : e.parentObjRef = lastOp'.owner) =>
                       EntriesOfType(trackedProperties', lastOp'.owner,
                                     lastOp'.property) = {}
                 /\ held = {} => trackedProperties' = trackedProperties]_vars

\* A startTrack by one owner took over the entry that another owner of the
\* same type held for the property
C12_Witness ==
    /\ lastOp.op = "startTrack" /\ outcome = "returned" /\ lastOp.cloneThrows = {}
    /\ lastOp.prev \in Owners \ {lastOp.owner}
    /\ ConstructorName(lastOp.prev) = ConstructorName(lastOp.owner)
    /\ \E e \in Entries(trackedProperties) :
          /\ EntriesOfType(trackedProperties, lastOp.owner, lastOp.property) = {e}
          /\ e.parentObjRef = lastOp.owner

\* C13: stopTrack(owner, property) removes the entry under the pair's key if
\* and only if that entry's owner reference resolves to the instance passed
\* in; in every other case the registry is left as it was.
C13_StopTrackOnlyForHolder ==
    [][lastOp'.op = "stopTrack" =>
          LET key == PropertyKey(lastOp'.owner, lastOp'.property)
              holds == /\ MapHas(trackedProperties, key)
                       /\ reachable[MapGet(trackedProperties, key).parentObjRef]
                       /\ MapGet(trackedProperties, key).parentObjRef = lastOp'.owner
          IN  /\ holds => /\ ~MapHas(trackedProperties', key)
                          /\ Entries(trackedProperties') =
                                Entries(trackedProperties)
                                   \ {MapGet(trackedProperties, key)}
              /\ ~holds => trackedProperties' = trackedProperties]_vars

\* A stopTrack for a key whose entry another instance of the type holds left
\* the entry in place
C13_Witness ==
    /\ lastOp.op = "stopTrack"
    /\ MapHas(trackedProperties, PropertyKey(lastOp.owner, lastOp.property))
    /\ MapGet(trackedProperties,
              PropertyKey(lastOp.owner, lastOp.property)).parentObjRef # lastOp.owner

\* C14: stopAllTracks leaves the registry empty, and while it is empty every
\* peekChanges returns the empty list; only a startTrack adds an entry again.
C14_StopAllEmptiesRegistry ==
    /\ [][lastOp'.op = "stopAllTracks" => trackedProperties' = <<>>]_vars
    /\ [][(trackedProperties = <<>> /\ lastOp'.op = "peekChanges") =>
             /\ outcome' = "returned"
             /\ result' = <<>>]_vars
    /\ [][(trackedProperties = <<>> /\ lastOp'.op # "startTrack") =>
             trackedProperties' = <<>>]_vars

\* A peekChanges returned nothing after a stopAllTracks, although a property
\* that had been registered differs from the value last committed for it
C14_Witness ==
    /\ lastOp.op = "peekChanges" /\ lastOp.prev = "stopAllTracks"
    /\ trackedProperties = <<>> /\ result = <<>>
    /\ \E o \in Owners, p \in Props :
          /\ committed[PropertyKey(o, p)] # Undefined
          /\ Readable([parentObjRef |-> o, property |-> p])
          /\ ~isEqual(committed[PropertyKey(o, p)], live[o][p])

\* C15: owners of different type names are tracked independently for the
\* same property name: a startTrack or stopTrack on one of them leaves the
\* entry of the other, with its owner, baseline and maxDepth, as it was.
C15_TypesAreIndependent ==
    [][lastOp'.op \in {"startTrack", "stopTrack"} =>
          \A e \in Entries(trackedProperties) :
             ConstructorName(e.parentObjRef) # ConstructorName(lastOp'.owner) =>
                e \in Entries(trackedProperties')]_vars

\* A startTrack registered a property while an owner of another type was
\* tracked for the same property name: both entries are held
C15_Witness ==
    /\ lastOp.op = "startTrack" /\ outcome = "returned"
    /\ \E e, f \in Entries(trackedProperties) :
          /\ e.parentObjRef = lastOp.owner
          /\ e.property = f.property
          /\ ConstructorName(f.parentObjRef) # ConstructorName(e.parentObjRef)

\* C16: a startTrack that reads and copies the value of an (owner, property)
\* it already tracks restarts the tracking: the entry's baseline is a fresh
\* copy of the live value and its maxDepth the one passed, so a peekChanges
\* that follows at once reports nothing for the entry, and the changes of any
\* peekChanges lie within the maxDepth of their entry.
C16_RestartTakesNewBaseline ==
    /\ [][(/\ lastOp'.op = "startTrack"
           /\ outcome' = "returned"
           /\ lastOp'.cloneThrows = {}
           /\ lastOp'.prev = lastOp'.owner) =>
             LET e == MapGet(trackedProperties',
                             PropertyKey(lastOp'.owner, lastOp'.property))
             IN  /\ MapHas(trackedProperties',
                           PropertyKey(lastOp'.owner, lastOp'.property))
                 /\ e.parentObjRef = lastOp'.owner
                 /\ e.shared = {}
                 /\ isEqual(e.originalValueSnapshot,
                            live[lastOp'.owner][lastOp'.property])
                 /\ e.maxDepth = lastOp'.maxDepth]_vars
    /\ [][(/\ lastOp.op = "startTrack"
           /\ outcome = "returned"
           /\ lastOp.cloneThrows = {}
           /\ lastOp'.op = "peekChanges") =>
             ChangesOf(result', PropertyKey(lastOp.owner, lastOp.property)) = <<>>]_vars
    /\ [][lastOp'.op = "peekChanges" =>
             \A j \in 1..Len(result') :
                Len(result'[j].segs) <=
                   MapGet(trackedProperties', result'[j].key).maxDepth]_vars

\* C17: a stored baseline is out of the caller's reach: no change of the
\* live value, in place at any depth or by assignment, changes the baseline
\* of an entry; the baseline an entry holds changes in a startTrack or an
\* updateSnapshots only.
C17_BaselineIndependent ==
    [][lastOp'.op \notin {"startTrack", "updateSnapshots"} =>
          \A f \in Entries(trackedProperties') :
             \E e \in Entries(trackedProperties) :
                /\ e.key = f.key
                /\ e.originalValueSnapshot = f.originalValueSnapshot]_vars

RECURSIVE Paths(_)
\* The paths, as sequences of keys and indices, to the values inside v, v
\* itself included
Paths(v) ==
    {<<>>} \cup UNION {{<<v.kids[i].k>> \o q : q \in Paths(v.kids[i].v)} :
                         i \in 1..Len(v.kids)}

\* old and new differ in the value at path q and nowhere else, and q lies
\* inside no value that is compared as a whole
OnlyChangeAt(old, new, q) ==
    /\ q \in Paths(old) \cap Paths(new)
    /\ ~isEqual(At(old, q), At(new, q))
    /\ new = Put(old, q, At(new, q))
    /\ \A n \in 0..(Len(q) - 1) :
          ~_isSpecialTypeOrPrimitive(At(old, SubSeq(q, 1, n)), treatAsValue)

\* The change at q replaces one value by another: one of the two at least
\* is a scalar, null, a date or a value the predicate accepts
ValueChangeAt(old, new, q) ==
    /\ OnlyChangeAt(old, new, q)
    /\ \/ _isSpecialTypeOrPrimitive(At(old, q), treatAsValue)
       \/ _isSpecialTypeOrPrimitive(At(new, q), treatAsValue)

\* The change at q adds elements to an array or removes them, or changes
\* the set of keys of an object
StructureChangeAt(old, new, q) ==
    /\ OnlyChangeAt(old, new, q)
    /\ LET u == At(old, q)
           w == At(new, q)
       IN  \/ IsArray(u) /\ IsArray(w) /\ Len(u.kids) # Len(w.kids)
           \/ u.t = "object" /\ w.t = "object" /\ KeySet(u) # KeySet(w)

\* changes is one change, at path segs below the property, from the value
\* old has there to the value new has there
OneChangeAt(changes, old, new, segs) ==
    /\ Len(changes) = 1
    /\ changes[1].segs = segs
    /\ changes[1].oldValue = At(old, segs)
    /\ changes[1].newValue = At(new, segs)

\* The minimum of two numbers
Min(a, b) == IF a < b THEN a ELSE b

\* The maximum of two numbers
Max(a, b) == IF a > b THEN a ELSE b

RECURSIVE PathString(_, _, _, _)
\* The property name followed by one segment for each of segs: [i] where
\* two arrays are compared, .key elsewhere
PathString(path, old, new, segs) ==
    IF segs = <<>> THEN path
    ELSE LET k == Head(segs)
         IN  PathString(path \o (IF IsArray(old) /\ IsArray(new)
                                 THEN "[" \o k \o "]" ELSE "." \o k),
                        Get(old, k), Get(new, k), Tail(segs))

\* The state after a peekChanges that returned
Peeked == lastOp.op = "peekChanges" /\ outcome = "returned"

\* C18: peekChanges returns the empty list exactly when no readable entry's
\* live value differs from its baseline: an entry with a live owner and a
\* readable property has a change in the result if and only if its live
\* value is not deeply equal to its baseline.
C18_ChangeIffNotEqual ==
    Peeked =>
       /\ \A e \in Entries(trackedProperties) :
             Readable(e) => (ChangesOf(result, e.key) # <<>> <=> Pending(e))
       /\ result = <<>> <=>
             \A e \in Entries(trackedProperties) : Readable(e) => ~Pending(e)

\* C19: when the live value differs from the value the property had when
\* its baseline was stored in one value, at depth d, and the entry's
\* maxDepth is m, peekChanges reports exactly one change: at the path of
\* that value, with the two values, when d < m, and at the path's first m
\* segments, with the old and new sub-trees there, when d >= m; in both
\* cases the path has min(d, m) segments.
C19_DepthAggregation ==
    Peeked =>
       \A e \in Entries(trackedProperties) :
          LET old == committed[e.key]
              new == live[e.parentObjRef][e.property]
          IN  \A q \in Paths(old) :
                 ValueChangeAt(old, new, q) =>
                    OneChangeAt(ChangesOf(result, e.key), old, new,
                                SubSeq(q, 1, Min(Len(q), e.maxDepth)))

\* C20 as stated: a change of an array's length or of an object's key set,
\* wherever the array or object sits in the tracked value, is reported as
\* exactly one change at the path of that container, with the old and new
\* container.
C20_StructuralAggregationAnywhere ==
    Peeked =>
       \A e \in Entries(trackedProperties) :
          LET old == e.originalValueSnapshot
              new == live[e.parentObjRef][e.property]
          IN  \A q \in Paths(old) :
                 StructureChangeAt(old, new, q) =>
                    OneChangeAt(ChangesOf(result, e.key), old, new, q)

\* The one change at q replaces an instance of a class the predicate is
\* written for by another instance of that class, with the same fields
ReplacedAt(old, new, q) ==
    /\ OnlyChangeAt(old, new, q)
    /\ At(old, q).t = "object" /\ At(new, q).t = "object"
    /\ At(old, q).a \in ValueTypes /\ At(new, q).a = At(old, q).a
    /\ KeySet(At(old, q)) = KeySet(At(new, q))

\* The fields in which two objects with the same keys differ
DifferingFields(u, w) == {k \in KeySet(u) : ~isEqual(Get(u, k), Get(w, k))}

MismatchAt(old, new, q) ==
    /\ OnlyChangeAt(old, new, q)
    /\ LET u == At(old, q)
           w == At(new, q)
       IN  /\ ~_isSpecialTypeOrPrimitive(u, treatAsValue)
           /\ ~_isSpecialTypeOrPrimitive(w, treatAsValue)
           /\ \/ IsArray(u) /\ w.t = "object"
              \/ u.t = "object" /\ IsArray(w)

\* C22: when the differ compares an array with a regular object, and the two
\* differ, it emits exactly one change, at the current path, with deep copies
\* of both sides, and none from inside either of them.
C22_MismatchedShapes ==
    Peeked =>
       \A e \in Entries(trackedProperties) :
          LET old == e.originalValueSnapshot
              new == live[e.parentObjRef][e.property]
              changes == ChangesOf(result, e.key)
          IN  \A q \in Paths(old) :
                 (MismatchAt(old, new, q) /\ Len(q) <= e.maxDepth) =>
                    /\ OneChangeAt(changes, old, new, q)
                    /\ changes[1].copied

\* What the differ gives for entry info, seeded with the entry's baseline,
\* the live value, the property name, the entry's maxDepth and depth 0
DifferOutput(info) ==
    Reported(info,
             _diffValues(info.originalValueSnapshot,
                         live[info.parentObjRef][info.property],
                         info.property, <<>>, info.maxDepth, 0, treatAsValue))

\* C23: the result of a peekChanges that returns is the concatenation, in
\* the order of the registry, of the differ's output for every entry whose
\* owner is alive, whose property is readable and whose live value differs
\* from its baseline, each diffed with its own maxDepth, and nothing else.
C23_ResultIsConcatenation ==
    Peeked =>
       result = Flatten([i \in 1..Len(trackedProperties) |->
                   IF Readable(trackedProperties[i]) /\ Pending(trackedProperties[i])
                   THEN DifferOutput(trackedProperties[i])
                   ELSE <<>>])

\* A peekChanges returned the changes of two entries of different maxDepth
C23_Witness ==
    /\ Peeked
    /\ \E e, f \in Entries(trackedProperties) :
          /\ e.maxDepth # f.maxDepth
          /\ ChangesOf(result, e.key) # <<>>
          /\ ChangesOf(result, f.key) # <<>>
          /\ Len(result) = Len(ChangesOf(result, e.key)) + Len(ChangesOf(result, f.key))

\* A value that a copy can be told from: an object, an array or a date
IsReference(v) == v.t \in {"object", "array", "date"}

\* C24: in every change record, an oldValue or newValue that is not atomic
\* is a deep copy, and one that is atomic is the compared value itself, not
\* a copy of it (a scalar and its copy are the same value).
C24_CopiesExactlyNonAtomic ==
    \A j \in 1..Len(result) :
       \A v \in {result[j].oldValue, result[j].newValue} :
          /\ ~_isSpecialTypeOrPrimitive(v, treatAsValue) => result[j].copied
          /\ (_isSpecialTypeOrPrimitive(v, treatAsValue) /\ IsReference(v)) =>
                ~result[j].copied

\* An atomic value: null, a scalar, a date, or an object of a class the
\* predicate accepts
Atomic(v) ==
    \/ v.t \in {"null", "undefined", "number", "string", "date"}
    \/ v.t = "object" /\ v.a \in treatAsValue

\* C25: below the depth ceiling, when at least one of the two values the
\* differ compares is atomic, it emits exactly one change, at the current
\* path and with the two values, if they are not deeply equal, and nothing if
\* they are; no change comes from a field or element of either value.  For
\* every entry of a peekChanges that returned: the differ gives this output
\* for the baseline's and the live value's parts at every path they share;
\* no change of the result lies inside a place where one of the two parts is
\* atomic; and a part that alone differs is the one change of the result.
C25_AtomicRule ==
    Peeked =>
       \A e \in Entries(trackedProperties) :
          LET old == e.originalValueSnapshot
              new == live[e.parentObjRef][e.property]
              changes == ChangesOf(result, e.key)
          IN  /\ \A q \in Paths(old) \cap Paths(new) :
                    LET u == At(old, q)
                        w == At(new, q)
                        currentPath == PathString(e.property, old, new, q)
                    IN  ((Atomic(u) \/ Atomic(w)) /\ Len(q) < e.maxDepth) =>
                           _diffValues(u, w, currentPath, q, e.maxDepth, Len(q),
                                       treatAsValue) =
                              IF isEqual(u, w) THEN <<>>
                              ELSE <<Change(currentPath, q, u, w, FALSE)>>
              /\ \A j \in 1..Len(changes) :
                    \A n \in 0..(Len(changes[j].segs) - 1) :
                       /\ ~Atomic(At(old, SubSeq(changes[j].segs, 1, n)))
                       /\ ~Atomic(At(new, SubSeq(changes[j].segs, 1, n)))
              /\ \A q \in Paths(old) :
                    (/\ OnlyChangeAt(old, new, q)
                     /\ Atomic(At(old, q)) \/ Atomic(At(new, q))
                     /\ Len(q) < e.maxDepth) =>
                       OneChangeAt(changes, old, new, q)
              /\ ((Atomic(old) \/ Atomic(new)) /\ isEqual(old, new)) => changes = <<>>

\* A regular object was replaced by a scalar, or a scalar by a regular
\* object, below the ceiling, and the one change has the path of the two
C25_Witness ==
    /\ Peeked
    /\ \E e \in Entries(trackedProperties) :
          LET old == e.originalValueSnapshot
              new == live[e.parentObjRef][e.property]
          IN  /\ e.maxDepth > 0
              /\ Atomic(old) # Atomic(new)
              /\ Len(old.kids) + Len(new.kids) > 0
              /\ OneChangeAt(result, old, new, <<>>)

\* C26: a change the caller makes to an oldValue taken from a peekChanges
\* result leaves the baseline of every entry as it was, and the peekChanges
\* that follows reports as old values the values of the baseline as it was
\* stored.
C26_HandedOutValuesAreDetached ==
    /\ [][lastOp'.op = "changeHandedOut" =>
             \A i \in 1..Len(trackedProperties) :
                trackedProperties'[i].originalValueSnapshot =
                   trackedProperties[i].originalValueSnapshot]_vars
    /\ [][(lastOp.op = "changeHandedOut" /\ lastOp'.op = "peekChanges") =>
             \A j \in 1..Len(result') :
                isEqual(result'[j].oldValue,
                        At(committed[result'[j].key], result'[j].segs))]_vars

\* C27: in every change record that peekChanges returns, oldValue and
\* newValue are not deeply equal.
C27_ReportsAreSound ==
    \A j \in 1..Len(result) : ~isEqual(result[j].oldValue, result[j].newValue)

\* C28: every path reported for an entry is the tracked property name
\* followed by at most max(maxDepth, 0) segments, each .key or [i]; with
\* maxDepth <= 0 any difference between the value the property had when the
\* baseline was stored and the live value is reported as exactly one change,
\* whose path is the property name alone and whose values are copies of the
\* whole old and new value.
C28_PathDepthBound ==
    Peeked =>
       \A e \in Entries(trackedProperties) :
          LET old == committed[e.key]
              new == live[e.parentObjRef][e.property]
              changes == ChangesOf(result, e.key)
          IN  /\ \A j \in 1..Len(changes) :
                    /\ Len(changes[j].segs) <= Max(e.maxDepth, 0)
                    /\ changes[j].path = PathString(e.property, old, new, changes[j].segs)
              /\ (e.maxDepth <= 0 /\ ~isEqual(old, new)) =>
                    /\ OneChangeAt(changes, old, new, <<>>)
                    /\ changes[1].path = e.property
                    /\ changes[1].copied

\* C29: within the changes one entry contributes to a peekChanges result,
\* the paths are pairwise distinct, and no path is the path of an ancestor of
\* the place another change is reported for.
C29_PathsAreDisjoint ==
    Peeked =>
       \A e \in Entries(trackedProperties) :
          LET old == e.originalValueSnapshot
              new == live[e.parentObjRef][e.property]
              changes == ChangesOf(result, e.key)
          IN  \A i, j \in 1..Len(changes) :
                 i # j =>
                    /\ changes[i].path # changes[j].path
                    /\ \A n \in 0..(Len(changes[j].segs) - 1) :
                          changes[i].path #
                             PathString(e.property, old, new,
                                        SubSeq(changes[j].segs, 1, n))

\* C30: updateSnapshots handles the entries independently: every entry whose
\* owner is reachable, whose property can be read and whose value can be
\* copied is in the registry after the call with a baseline deeply equal to
\* the current value, whatever happened to the other entries in the call.
C30_UpdateHandlesEntriesIndependently ==
    [][lastOp'.op = "updateSnapshots" =>
          \A e \in Entries(trackedProperties) :
             (Readable(e) /\ e.key \notin lastOp'.cloneThrows) =>
                /\ MapHas(trackedProperties', e.key)
                /\ isEqual(MapGet(trackedProperties', e.key).originalValueSnapshot,
                           live'[e.parentObjRef][e.property])
                /\ MapGet(trackedProperties', e.key).parentObjRef = e.parentObjRef
                /\ MapGet(trackedProperties', e.key).maxDepth = e.maxDepth]_vars

====
